---- MODULE Spec2Model ----
(***************************************************************************)
(* Block-decomposed 2-D sliding-window median filter (src/src/filter.cc).  *)
(*                                                                         *)
(* Three specifications over one set of variables:                         *)
(*   SpecW  - one Window object driven by arbitrary clear/update/find      *)
(*            calls, find modelled one loop iteration per step;            *)
(*   SpecD  - the per-axis block geometry Dim / BDim;                      *)
(*   Spec   - median_filter_2d: driver, parallel workers, per-block rank   *)
(*            build and snake traversal.                                   *)
(* A 64-bit word is modelled as the set of its set bit indices (0..63),    *)
(* the bit array buf as the set of global bit numbers that are set.        *)
(***************************************************************************)
EXTENDS Integers, Sequences, FiniteSets, TLC

\* ------------------------------------------------------------------ bounds

\* Window capacities tried by SpecW are b*b for b in 1..MaxWinB.
MaxWinB == 12

\* SpecD draws the block size, the axis length and the radius from
\* 1..MaxDimB, 0..MaxDimSize and 0..MaxDimH.
MaxDimB == 7
MaxDimSize == 16
MaxDimH == 3

\* Spec draws images of at most MaxCells cells, radii from 0..MaxH, the
\* block size hint from 0..MaxB, input arrays that walk SampleTable with a
\* stride from 0..MaxStride, and runs a team of MaxThreads workers.
MaxCells == 5
MaxH == 1
MaxB == 4
MaxStride == 1
MaxThreads == 2

\* Spec draws the calls whose block grid has at most MaxBlocks blocks.
MaxBlocks == 2

\* ------------------------------------------------------- program constants

WORD_SHIFT == 6
WORD_SIZE == 2 ^ WORD_SHIFT
NAN_MARKER == -1

\* ---------------------------------------------------------------- helpers

Min(S) == CHOOSE m \in S : \A e \in S : m <= e
Max(S) == CHOOSE m \in S : \A e \in S : m >= e
max(a, b) == IF a >= b THEN a ELSE b
min(a, b) == IF a <= b THEN a ELSE b

\* No value: a find that has not returned, an output cell not yet written.
None == 0 - 1

\* ------------------------------------------------------------- bit tricks

\* __builtin_popcountll
popcnt64(x) == Cardinality(x)

\* x &= x - 1: clears the lowest set bit; 0 stays 0.
ClearLowest(x) == IF x = {} THEN {} ELSE x \ {Min(x)}

RECURSIVE ClearLowestN(_, _)
ClearLowestN(x, n) == IF n <= 0 THEN x ELSE ClearLowestN(ClearLowest(x), n - 1)

\* findnth64 is defined when the n-th set bit exists (n counted from 0).
findnth64_defined(x, n) == 0 <= n /\ n < popcnt64(x)

\* Mutant: one bit too few is cleared.
findnth64_off(x, n) == Min(ClearLowestN(x, n - 1))

\* The portable path: clear the lowest set bit n times, count trailing zeros.
\* (The PDEP path deposits bit n onto the n-th set bit of x: the same bit.)
findnth64(x, n) == Min(ClearLowestN(x, n))

\* ----------------------------------------------------------------- Window

get_words(bb) == (bb + WORD_SIZE - 1) \div WORD_SIZE

\* buf[i] of window w, as the set of its set bit indices.
Word(w, i) == {s % WORD_SIZE : s \in {t \in w.buf : t \div WORD_SIZE = i}}

InBuf(w, i) == 0 <= i /\ i < w.words

\* Mutant: clear() resets half and p and leaves the bits of buf.
WinClear_keepbuf(w) ==
    [w EXCEPT !.half0 = 0, !.half1 = 0, !.p = w.words \div 2]

\* Window::clear
WinClear(w) ==
    [w EXCEPT !.buf = {}, !.half0 = 0, !.half1 = 0, !.p = w.words \div 2]

\* Mutant: the pivot word itself accounted to the lower half.
UpdHalf_gt(i, p) == IF i > p THEN 1 ELSE 0

\* The half an update of word i is accounted to: half[i >= p].
UpdHalf(i, p) == IF i >= p THEN 1 ELSE 0

\* Window::update, lines 172-173 (the caller has checked the assertions).
WinUpdate(w, op, s) ==
    LET i == s \div WORD_SIZE
        nb == IF s \in w.buf THEN w.buf \ {s} ELSE w.buf \cup {s}
    IN  IF UpdHalf(i, w.p) = 1
        THEN [w EXCEPT !.buf = nb, !.half1 = @ + op]
        ELSE [w EXCEPT !.buf = nb, !.half0 = @ + op]

\* The assertion of Window::update: the bit is clear before +1, set before -1.
UpdateAssert(w, op, s) == IF op = 1 THEN s \notin w.buf ELSE s \in w.buf

\* Window::size
WinSize(w) == w.half0 + w.half1

\* Mutant: the first loop also walks when half0 = goal.
FindLeftCond_ge(w, goal) == w.half0 >= goal

\* Loop conditions of Window::find.
FindLeftCond(w, goal) == w.half0 > goal
FindRightCond(w, goal) == w.half0 + popcnt64(Word(w, w.p)) <= goal

\* One iteration of the first loop: --p, then move buf[p] from half0 to half1.
FindLeftStep(w) ==
    LET q == w.p - 1
        c == popcnt64(Word(w, q))
    IN  [w EXCEPT !.p = q, !.half0 = @ - c, !.half1 = @ + c]

\* One iteration of the second loop: move buf[p] from half1 to half0, then ++p.
FindRightStep(w) ==
    LET c == popcnt64(Word(w, w.p))
    IN  [w EXCEPT !.p = w.p + 1, !.half0 = @ + c, !.half1 = @ - c]

\* The assertion before findnth64 in Window::find.
FindAssert(w, goal) ==
    LET n == goal - w.half0 IN 0 <= n /\ n < popcnt64(Word(w, w.p))

\* The value find returns.
FindResult(w, goal) ==
    w.p * WORD_SIZE + findnth64(Word(w, w.p), goal - w.half0)

\* The first loop run to its end; stops early (p = -1) where buf[p] would be
\* read below the array.
RECURSIVE FindLeftLoop(_, _)
FindLeftLoop(w, goal) ==
    IF FindLeftCond(w, goal) /\ InBuf(w, w.p - 1)
    THEN FindLeftLoop(FindLeftStep(w), goal)
    ELSE IF FindLeftCond(w, goal) THEN [w EXCEPT !.p = w.p - 1] ELSE w

\* The second loop run to its end; stops early where p leaves the array.
RECURSIVE FindRightLoop(_, _)
FindRightLoop(w, goal) ==
    IF InBuf(w, w.p) /\ FindRightCond(w, goal)
    THEN FindRightLoop(FindRightStep(w), goal)
    ELSE w

\* Window::find as one call: the window after it, whether a read of buf[p]
\* was outside the array (oob), whether the assertion held (ok), and the value
\* returned when both went well.
WinFind(w, goal) ==
    LET w2 == FindRightLoop(FindLeftLoop(w, goal), goal)
        oob == ~InBuf(w2, w2.p)
        ok == ~oob /\ FindAssert(w2, goal)
    IN  [w |-> w2, oob |-> oob, ok |-> ok,
         ret |-> IF ok THEN FindResult(w2, goal) ELSE None]

\* ------------------------------------------------------------- WindowRank

\* Sample values are even integers, so that halving a sum of two is exact;
\* NaN and "not written" are two further codes.
NaN == 0 - 7
Unwritten == 0 - 9
isnan(v) == v = NaN

\* std::pair's operator<, on <<value, slot>>.
PairLess(a, b) == a[1] < b[1] \/ (a[1] = b[1] /\ a[2] < b[2])

\* The fields of a WindowRank of capacity bb after its constructor: sorted
\* and rank are allocated and unwritten (their written part is the function's
\* domain); size and the Window's fields are uninitialised, and are written
\* by init_start and Window::clear before anything reads them.
WindowRankNew(bb) ==
    [bb |-> bb, size |-> 0, sorted |-> <<>>, rank |-> <<>>, fresh |-> {},
     win |-> [words |-> get_words(bb), buf |-> {}, half0 |-> 0, half1 |-> 0,
              p |-> 0]]

\* WindowRank::update for the slots of sq from index k on, in order. st is
\* [win, failed, ub, stale, n]: failed when an assertion of Window::update
\* did not hold, ub when rank or buf was accessed out of range or rank[slot]
\* was read unwritten, stale when rank[slot] was not written by this block's
\* rank build, n the number of Window::update calls.
RECURSIVE UpdateSlots(_, _, _, _, _)
UpdateSlots(wr, st, op, sq, k) ==
    IF k > Len(sq) THEN st
    ELSE LET slot == sq[k]
             known == slot \in DOMAIN wr.rank
             s == IF known THEN wr.rank[slot] ELSE NAN_MARKER
             i == s \div WORD_SIZE
             st1 == [st EXCEPT !.ub = @ \/ ~known,
                               !.stale = @ \/ slot \notin wr.fresh]
             st2 == IF s = NAN_MARKER THEN st1
                    ELSE IF ~InBuf(st.win, i) THEN [st1 EXCEPT !.ub = TRUE]
                    ELSE [st1 EXCEPT
                            !.failed = @ \/ ~UpdateAssert(st.win, op, s),
                            !.win = WinUpdate(st.win, op, s),
                            !.n = @ + 1]
         IN  UpdateSlots(wr, st2, op, sq, k + 1)

\* Mutant: the lower middle element instead of the mean of the two.
get_med_lower(wr, w) ==
    LET total == WinSize(w)
        r1 == WinFind(w, (total - 1) \div 2)
    IN  IF total = 0
        THEN [win |-> w, val |-> NaN, failed |-> FALSE, ub |-> FALSE]
        ELSE [win |-> r1.w,
              val |-> IF r1.ok /\ r1.ret \in DOMAIN wr.sorted
                      THEN wr.sorted[r1.ret][1] ELSE NaN,
              failed |-> FALSE, ub |-> FALSE]

\* WindowRank::get_med on window w: [win, val, failed, ub]. failed: an
\* assertion (of find, or med2 > med1) did not hold; ub: a read of buf or
\* sorted out of range or unwritten, or findnth64 of a missing bit.
get_med(wr, w) ==
    LET total == WinSize(w)
        goal1 == (total - 1) \div 2
        goal2 == total \div 2
        r1 == WinFind(w, goal1)
        r2 == WinFind(r1.w, goal2)
        two == goal2 # goal1
        ok1 == r1.ok /\ r1.ret \in DOMAIN wr.sorted
        ok2 == ~two \/ (r2.ok /\ r2.ret \in DOMAIN wr.sorted)
        v1 == wr.sorted[r1.ret][1]
        v2 == wr.sorted[r2.ret][1]
    IN  IF total = 0
        THEN [win |-> w, val |-> NaN, failed |-> FALSE, ub |-> FALSE]
        ELSE IF ~ok1
        THEN [win |-> r1.w, val |-> NaN, failed |-> ~r1.oob /\ ~r1.ok,
              ub |-> TRUE]
        ELSE IF ~ok2
        THEN [win |-> r2.w, val |-> NaN, failed |-> ~r2.oob /\ ~r2.ok,
              ub |-> TRUE]
        ELSE [win |-> IF two THEN r2.w ELSE r1.w,
              val |-> IF two THEN (v1 + v2) \div 2 ELSE v1,
              failed |-> two /\ ~(r2.ret > r1.ret),
              ub |-> FALSE]

\* -------------------------------------------------------------- Dim, BDim

calc_step(b, h) == b - 2 * h

\* Mutant: the block count rounded down.
calc_count_floor(b, size, h) ==
    IF size <= b THEN 1 ELSE (size - 2 * h) \div calc_step(b, h)

\* Dim::calc_count. Its operands are positive where the division is reached
\* (size > b >= 2h + 1), so C++ truncation and \div agree.
calc_count(b, size, h) ==
    IF size <= b
    THEN 1
    ELSE LET interior == size - 2 * h
             step == calc_step(b, h)
         IN  (interior + step - 1) \div step

\* Dim::Dim, the member initialisers.
DimNew(b, size, h) ==
    [size |-> size, h |-> h, step |-> calc_step(b, h),
     count |-> calc_count(b, size, h)]

\* Dim::Dim, the four assertions of the constructor body.
DimAssert(b, d) ==
    /\ 2 * d.h + 1 < b
    /\ d.count >= 1
    /\ 2 * d.h + d.count * d.step >= d.size
    /\ (2 * d.h + (d.count - 1) * d.step < d.size \/ d.count = 1)

\* Mutant: a block that is not the last ends after one halo, not two.
BDimEnd_onehalo(d, i) ==
    IF i + 1 = d.count THEN d.size ELSE d.h + (i + 1) * d.step

\* BDim::set: end of block i.
BDimEnd(d, i) ==
    IF i + 1 = d.count THEN d.size ELSE 2 * d.h + (i + 1) * d.step

\* Mutant: the last block's interior stops h short of the image edge.
BDimB1_nolast(d, i, size) == size - d.h

\* BDim::set: b1 of block i, whose tile is size long.
BDimB1(d, i, size) == IF i + 1 = d.count THEN size ELSE size - d.h

\* Mutant: every block's interior starts at its first cell.
BDimB0_zero(d, i) == 0

\* BDim::set: b0 of block i.
BDimB0(d, i) == IF i = 0 THEN 0 ELSE d.h

\* BDim::set
BDimSet(d, i) ==
    LET start == d.step * i
        size == BDimEnd(d, i) - start
    IN  [start |-> start, size |-> size,
         b0 |-> BDimB0(d, i), b1 |-> BDimB1(d, i, size)]

\* The assertions of BDim::w0 and BDim::w1.
WAssert(bd, v) == bd.b0 <= v /\ v < bd.b1

\* Mutant: w0 without the clipping at the tile's first cell.
w0_noclip(d, bd, v) == v - d.h

\* BDim::w0, BDim::w1
w0(d, bd, v) == max(0, v - d.h)
w1(d, bd, v) == min(v + 1 + d.h, bd.size)

\* -------------------------------------------------------------- MedCalc2D

\* inline int choose_blocksize_2d(int h)
choose_blocksize_2d(h) == 4 * (h + 2)

\* median_filter_2d: the block size passed to median_filter_impl_2d.
Blocksize(hx, hy, blockhint) ==
    IF blockhint # 0 THEN blockhint ELSE choose_blocksize_2d(max(hx, hy))

\* median_filter_impl_2d: the condition of the throw.
ImplThrows(hx, hy, b) == 2 * hx + 1 > b \/ 2 * hy + 1 > b

\* MedCalc2D::MedCalc2D: wr(b*b), and each BDim constructor calls set(0).
MedCalcNew(b, dx, dy) ==
    [wr |-> WindowRankNew(b * b), bx |-> BDimSet(dx, 0), by |-> BDimSet(dy, 0)]

\* MedCalc2D::pack
pack(mc, x, y) == y * mc.bx.size + x

\* MedCalc2D::coord; dx is bx.dim.
coord(mc, dx, x, y) == (y + mc.by.start) * dx.size + (x + mc.bx.start)

\* The cells of [x0, x1) x [y0, y1) in the order of the nested loops: y outer,
\* x inner.
CellSeq(x0, x1, y0, y1) ==
    LET nx == max(0, x1 - x0)
        ny == max(0, y1 - y0)
    IN  [k \in 1..(nx * ny) |-> <<x0 + ((k - 1) % nx), y0 + ((k - 1) \div nx)>>]

\* Mutant: update_block passes the slot of the cell to the right.
SlotSeq_shifted(mc, x0, x1, y0, y1) ==
    LET cs == CellSeq(x0, x1, y0, y1)
    IN  [k \in 1..Len(cs) |-> pack(mc, cs[k][1] + 1, cs[k][2])]

\* update_block's slots, in call order.
SlotSeq(mc, x0, x1, y0, y1) ==
    LET cs == CellSeq(x0, x1, y0, y1)
    IN  [k \in 1..Len(cs) |-> pack(mc, cs[k][1], cs[k][2])]

\* Mutant: init_feed leaves rank[slot] of a NaN cell as it was.
calc_rank_nomark(mc, dx, inp) ==
    LET cells == CellSeq(0, mc.bx.size, 0, mc.by.size)
        idx == 1..Len(cells)
        slot(k) == pack(mc, cells[k][1], cells[k][2])
        crd(k) == coord(mc, dx, cells[k][1], cells[k][2])
        bad == \E k \in idx :
                  crd(k) \notin DOMAIN inp \/ slot(k) \notin 0..(mc.wr.bb - 1)
        val(k) == inp[crd(k)]
        fed == {k \in idx : ~isnan(val(k))}
        nans == {slot(k) : k \in idx \ fed}
        size == Cardinality(fed)
        less(j, k) == \/ PairLess(<<val(j), slot(j)>>, <<val(k), slot(k)>>)
                      \/ (val(j) = val(k) /\ slot(j) = slot(k) /\ j < k)
        pos(k) == Cardinality({j \in fed : less(j, k)})
        at(i) == CHOOSE k \in fed : pos(k) = i
        sorted == [i \in (DOMAIN mc.wr.sorted) \cup 0..(size - 1) |->
                     IF i < size THEN <<val(at(i)), slot(at(i))>>
                     ELSE mc.wr.sorted[i]]
        ranked == {slot(k) : k \in fed}
        rank == [s \in (DOMAIN mc.wr.rank) \cup ranked |->
                   IF s \in ranked
                   THEN Max({pos(k) : k \in {j \in fed : slot(j) = s}})
                   ELSE mc.wr.rank[s]]
    IN  IF bad \/ size > mc.wr.bb
        THEN [mc |-> mc, ub |-> TRUE]
        ELSE [mc |-> [mc EXCEPT !.wr.size = size, !.wr.sorted = sorted,
                                !.wr.rank = rank,
                                !.wr.fresh = nans \cup ranked],
              ub |-> FALSE]

\* MedCalc2D::calc_rank with WindowRank::init_start, init_feed, init_finish:
\* [mc, ub]. Entry k of the feed is cell cells[k]; the sort key carries k
\* last, which orders only identical pairs. ub: in, rank or sorted accessed
\* out of range.
calc_rank(mc, dx, inp) ==
    LET cells == CellSeq(0, mc.bx.size, 0, mc.by.size)
        idx == 1..Len(cells)
        slot(k) == pack(mc, cells[k][1], cells[k][2])
        crd(k) == coord(mc, dx, cells[k][1], cells[k][2])
        bad == \E k \in idx :
                  crd(k) \notin DOMAIN inp \/ slot(k) \notin 0..(mc.wr.bb - 1)
        val(k) == inp[crd(k)]
        fed == {k \in idx : ~isnan(val(k))}
        nans == {slot(k) : k \in idx \ fed}
        size == Cardinality(fed)
        less(j, k) == \/ PairLess(<<val(j), slot(j)>>, <<val(k), slot(k)>>)
                      \/ (val(j) = val(k) /\ slot(j) = slot(k) /\ j < k)
        pos(k) == Cardinality({j \in fed : less(j, k)})
        at(i) == CHOOSE k \in fed : pos(k) = i
        sorted == [i \in (DOMAIN mc.wr.sorted) \cup 0..(size - 1) |->
                     IF i < size THEN <<val(at(i)), slot(at(i))>>
                     ELSE mc.wr.sorted[i]]
        ranked == {slot(k) : k \in fed}
        rank == [s \in (DOMAIN mc.wr.rank) \cup nans \cup ranked |->
                   IF s \in ranked
                   THEN Max({pos(k) : k \in {j \in fed : slot(j) = s}})
                   ELSE IF s \in nans THEN NAN_MARKER ELSE mc.wr.rank[s]]
    IN  IF bad \/ size > mc.wr.bb
        THEN [mc |-> mc, ub |-> TRUE]
        ELSE [mc |-> [mc EXCEPT !.wr.size = size, !.wr.sorted = sorted,
                                !.wr.rank = rank,
                                !.wr.fresh = nans \cup ranked],
              ub |-> FALSE]

\* What one emit of medians() did: the worker's MedCalc2D and locals after
\* it, the cell and the value of set_med, and the flags of UpdateSlots and
\* get_med; kind is the move made, nrm and nins the numbers of
\* Window::update calls of the removing and the inserting update_block, wok
\* whether the assertions of the w0 and w1 calls held, upok whether those of
\* the Window::update calls did, with rank and buf indexed in range.
Emit(mc, dx, x, y, down, kind, rm, ins, wok) ==
    LET st0 == [win |-> IF kind = "first" THEN WinClear(mc.wr.win)
                        ELSE mc.wr.win,
                failed |-> FALSE, ub |-> FALSE, stale |-> FALSE, n |-> 0]
        st1 == UpdateSlots(mc.wr, st0, -1, rm, 1)
        st2 == UpdateSlots(mc.wr, st1, 1, ins, 1)
        g == get_med(mc.wr, st2.win)
    IN  [mc |-> [mc EXCEPT !.wr.win = g.win],
         x |-> x, y |-> y, down |-> down, brk |-> FALSE, kind |-> kind,
         c |-> coord(mc, dx, x, y), val |-> g.val,
         failed |-> ~wok \/ st2.failed \/ g.failed, ub |-> st2.ub \/ g.ub,
         stale |-> st2.stale, nrm |-> st1.n, nins |-> st2.n - st1.n,
         wok |-> wok, upok |-> ~st2.failed /\ ~st2.ub]

\* medians(), NAIVE build, lines 325-331: the body of the loops at the
\* interior cell (x, y): clear, insert the whole window, emit.
NaiveCell(mc, dx, dy, x, y) ==
    Emit(mc, dx, x, y, TRUE, "first", <<>>,
         SlotSeq(mc, w0(dx, mc.bx, x), w1(dx, mc.bx, x),
                     w0(dy, mc.by, y), w1(dy, mc.by, y)),
         WAssert(mc.bx, x) /\ WAssert(mc.by, y))

\* medians(), lines 333-337: clear, insert the window of (b0_x, b0_y), emit.
MediansBegin(mc, dx, dy) ==
    LET x == mc.bx.b0
        y == mc.by.b0
    IN  Emit(mc, dx, x, y, TRUE, "first", <<>>,
             SlotSeq(mc, w0(dx, mc.bx, x), w1(dx, mc.bx, x),
                         w0(dy, mc.by, y), w1(dy, mc.by, y)),
             WAssert(mc.bx, x) /\ WAssert(mc.by, y))

\* Mutant: going down, the turn is taken one row late.
SnakeTurn_late(mc, y, down) == IF down THEN y = mc.by.b1 ELSE y = mc.by.b0

\* Lines 340-351: whether this iteration turns right.
SnakeTurn(mc, y, down) == IF down THEN y + 1 = mc.by.b1 ELSE y = mc.by.b0

\* Mutant: the loop breaks at its first turn.
SnakeBreak_firstturn(mc, x, y, down) == SnakeTurn(mc, y, down)

\* Lines 352-356: the break.
SnakeBreak(mc, x, y, down) == SnakeTurn(mc, y, down) /\ x + 1 = mc.bx.b1

\* Mutant: the step right removes the column it is about to insert.
StepRight_removeahead(mc, dx, dy, x, y, down) ==
    Emit(mc, dx, x + 1, y, down, "right",
         SlotSeq(mc, w1(dx, mc.bx, x), w1(dx, mc.bx, x + 1),
                     w0(dy, mc.by, y), w1(dy, mc.by, y)),
         SlotSeq(mc, w1(dx, mc.bx, x), w1(dx, mc.bx, x + 1),
                     w0(dy, mc.by, y), w1(dy, mc.by, y)),
         WAssert(mc.bx, x) /\ WAssert(mc.bx, x + 1) /\ WAssert(mc.by, y))

\* Lines 357-360: the step right.
StepRight(mc, dx, dy, x, y, down) ==
    Emit(mc, dx, x + 1, y, down, "right",
         SlotSeq(mc, w0(dx, mc.bx, x), w0(dx, mc.bx, x + 1),
                     w0(dy, mc.by, y), w1(dy, mc.by, y)),
         SlotSeq(mc, w1(dx, mc.bx, x), w1(dx, mc.bx, x + 1),
                     w0(dy, mc.by, y), w1(dy, mc.by, y)),
         WAssert(mc.bx, x) /\ WAssert(mc.bx, x + 1) /\ WAssert(mc.by, y))

\* Mutant: the step down inserts the new row and removes nothing.
StepDown_noremove(mc, dx, dy, x, y) ==
    Emit(mc, dx, x, y + 1, TRUE, "down",
         <<>>,
         SlotSeq(mc, w0(dx, mc.bx, x), w1(dx, mc.bx, x),
                     w1(dy, mc.by, y), w1(dy, mc.by, y + 1)),
         WAssert(mc.bx, x) /\ WAssert(mc.by, y) /\ WAssert(mc.by, y + 1))

\* Lines 361-364: the step down.
StepDown(mc, dx, dy, x, y) ==
    Emit(mc, dx, x, y + 1, TRUE, "down",
         SlotSeq(mc, w0(dx, mc.bx, x), w1(dx, mc.bx, x),
                     w0(dy, mc.by, y), w0(dy, mc.by, y + 1)),
         SlotSeq(mc, w0(dx, mc.bx, x), w1(dx, mc.bx, x),
                     w1(dy, mc.by, y), w1(dy, mc.by, y + 1)),
         WAssert(mc.bx, x) /\ WAssert(mc.by, y) /\ WAssert(mc.by, y + 1))

\* Mutant: the step up removes the row it leaves and inserts nothing.
StepUp_noinsert(mc, dx, dy, x, y) ==
    Emit(mc, dx, x, y - 1, FALSE, "up",
         SlotSeq(mc, w0(dx, mc.bx, x), w1(dx, mc.bx, x),
                     w1(dy, mc.by, y - 1), w1(dy, mc.by, y)),
         <<>>,
         WAssert(mc.bx, x) /\ WAssert(mc.by, y - 1) /\ WAssert(mc.by, y))

\* Mutant: the step up removes the whole old window and inserts the whole
\* new one.
StepUp_rebuild(mc, dx, dy, x, y) ==
    Emit(mc, dx, x, y - 1, FALSE, "up",
         SlotSeq(mc, w0(dx, mc.bx, x), w1(dx, mc.bx, x),
                     w0(dy, mc.by, y), w1(dy, mc.by, y)),
         SlotSeq(mc, w0(dx, mc.bx, x), w1(dx, mc.bx, x),
                     w0(dy, mc.by, y - 1), w1(dy, mc.by, y - 1)),
         WAssert(mc.bx, x) /\ WAssert(mc.by, y - 1) /\ WAssert(mc.by, y))

\* Lines 365-369: the step up.
StepUp(mc, dx, dy, x, y) ==
    Emit(mc, dx, x, y - 1, FALSE, "up",
         SlotSeq(mc, w0(dx, mc.bx, x), w1(dx, mc.bx, x),
                     w1(dy, mc.by, y - 1), w1(dy, mc.by, y)),
         SlotSeq(mc, w0(dx, mc.bx, x), w1(dx, mc.bx, x),
                     w0(dy, mc.by, y - 1), w0(dy, mc.by, y)),
         WAssert(mc.bx, x) /\ WAssert(mc.by, y - 1) /\ WAssert(mc.by, y))

\* One iteration of the while loop of medians() that does not break.
SnakeStep(mc, dx, dy, x, y, down) ==
    IF SnakeTurn(mc, y, down) THEN StepRight(mc, dx, dy, x, y, ~down)
    ELSE IF down THEN StepDown(mc, dx, dy, x, y)
    ELSE StepUp(mc, dx, dy, x, y)

\* ------------------------------------------------------------- variables

VARIABLES
    build,      \* "any" until an assertion fails, then "debug" or "ndebug"
    wbb,        \* SpecW: capacity the Window was constructed with
    win,        \* SpecW: the Window [words, buf, half0, half1, p]
    wcleared,   \* SpecW: clear() has run since construction
    wpc,        \* SpecW: "idle", or the place find has reached
    wgoal,      \* SpecW: argument of the find in progress / last returned
    wret,       \* SpecW: value the last find returned, None after other calls
    wbuf0,      \* SpecW: buf when the find in progress / last returned began
    wlast,      \* SpecW: the last call made
    db,         \* SpecD: block size the Dim is constructed with
    dim,        \* SpecD: the Dim [size, h, step, count]
    dpc,        \* SpecD: "new", "built", "abort"
    bd,         \* SpecD: the BDim [start, size, b0, b1]
    dnext,      \* SpecD: next block index the loop sets
    dcover,     \* SpecD: image coordinates of the interiors set so far
    arg,        \* Spec: [x, y, hx, hy, blockhint] of median_filter_2d
    inp,        \* Spec: the input array in, by coordinate y * X + x
    pc,         \* Spec: "start", "threw", "checked", "parallel", "done",
                \*       "abort" (failed assertion), "ub" (undefined behaviour)
    dimx,       \* Spec: Dim of the x axis
    dimy,       \* Spec: Dim of the y axis
    ws,         \* Spec: per worker [pc, mc, x, y, down, last]
    todo,       \* Spec: blocks <<bx, by>> not yet handed to a worker
    out,        \* Spec: the output array
    nwr         \* Spec: per output cell, the number of writes to it

wvars == <<wbb, win, wcleared, wpc, wgoal, wret, wbuf0, wlast>>
dvars == <<db, dim, dpc, bd, dnext, dcover>>
fvars == <<arg, inp, pc, dimx, dimy, ws, todo, out, nwr>>
vars == <<build, wvars, dvars, fvars>>

\* The variables of a specification that is not the one running.
WIdle ==
    /\ wbb = 1
    /\ win = [words |-> 1, buf |-> {}, half0 |-> 0, half1 |-> 0, p |-> 0]
    /\ wcleared = FALSE
    /\ wpc = "off"
    /\ wgoal = None
    /\ wret = None
    /\ wbuf0 = {}
    /\ wlast = "new"

DIdle ==
    /\ db = 1
    /\ dim = DimNew(1, 0, 0)
    /\ dpc = "off"
    /\ bd = BDimSet(dim, 0)
    /\ dnext = 0
    /\ dcover = <<>>

FIdle ==
    /\ arg = [x |-> 0, y |-> 0, hx |-> 0, hy |-> 0, blockhint |-> 0]
    /\ inp = <<>>
    /\ pc = "off"
    /\ dimx = DimNew(1, 0, 0)
    /\ dimy = DimNew(1, 0, 0)
    /\ ws = <<>>
    /\ todo = {}
    /\ out = <<>>
    /\ nwr = <<>>

\* The builds an assertion failure can happen in: with NDEBUG the assertion
\* is elided, without it the process aborts.
Builds == IF build = "any" THEN {"debug", "ndebug"} ELSE {build}

\* ------------------------------------------------------------------ SpecD

\* The parameters the driver passes on: it throws when 2h + 1 > b.
DInit ==
    /\ db \in 1..MaxDimB
    /\ \E size \in 0..MaxDimSize, h \in 0..MaxDimH :
          /\ 2 * h + 1 <= db
          /\ dim = DimNew(db, size, h)
    /\ dpc = "new"
    /\ bd = BDimSet(dim, 0)
    /\ dnext = 0
    /\ dcover = <<>>

\* Image coordinates of the interior [start + b0, start + b1), ascending.
Interior(b) == [k \in 1..max(0, b.b1 - b.b0) |-> b.start + b.b0 + k - 1]

\* The body of Dim::Dim: the assertions.
DConstruct ==
    /\ dpc = "new"
    /\ IF DimAssert(db, dim)
       THEN dpc' = "built" /\ build' = build
       ELSE \E x \in Builds :
               /\ build' = x
               /\ dpc' = IF x = "debug" THEN "abort" ELSE "built"
    /\ UNCHANGED <<db, dim, bd, dnext, dcover, wvars, fvars>>

\* One iteration of the block loop on this axis: set(i) for the next i.
DSet ==
    /\ dpc = "built"
    /\ dnext < dim.count
    /\ bd' = BDimSet(dim, dnext)
    /\ dcover' = dcover \o Interior(bd')
    /\ dnext' = dnext + 1
    /\ UNCHANGED <<build, db, dim, dpc, wvars, fvars>>

DNext == DConstruct \/ DSet

DSpecInit == build = "any" /\ DInit /\ WIdle /\ FIdle

SpecD == DSpecInit /\ [][DNext]_vars

\* ------------------------------------------------------------------ SpecW

WinBBs == {b * b : b \in 1..MaxWinB}

\* Bit numbers the harness sets and clears: those next to the word borders.
ProbeOffsets == {0, 1, WORD_SIZE - 1}
Probe(bb) == {s \in 0..(bb - 1) : (s % WORD_SIZE) \in ProbeOffsets}

\* The constructor allocates buf and leaves buf, half and p uninitialised.
WInit ==
    /\ wbb \in WinBBs
    /\ \E g \in SUBSET {0, 1}, h0 \in {0, 1}, h1 \in {0, 1}, q \in {0, 1} :
          win = [words |-> get_words(wbb), buf |-> g,
                 half0 |-> h0, half1 |-> h1, p |-> q]
    /\ wcleared = FALSE
    /\ wpc = "idle"
    /\ wgoal = None
    /\ wret = None
    /\ wbuf0 = {}
    /\ wlast = "new"

WClear ==
    /\ wpc = "idle"
    /\ win' = WinClear(win)
    /\ wcleared' = TRUE
    /\ wret' = None /\ wgoal' = None /\ wbuf0' = {}
    /\ wlast' = "clear"
    /\ UNCHANGED <<build, wbb, wpc, dvars, fvars>>

\* update(op, s) on a cleared window, its assertion respected by the caller.
WUpdate ==
    /\ wpc = "idle"
    /\ wcleared
    /\ \E op \in {-1, 1}, s \in Probe(wbb) :
          /\ UpdateAssert(win, op, s)
          /\ win' = WinUpdate(win, op, s)
    /\ wret' = None /\ wgoal' = None /\ wbuf0' = {}
    /\ wlast' = "update"
    /\ UNCHANGED <<build, wbb, wcleared, wpc, dvars, fvars>>

\* find(goal) is called with 0 <= goal < size().
WFindCall ==
    /\ wpc = "idle"
    /\ wcleared
    /\ \E goal \in 0..(WinSize(win) - 1) : wgoal' = goal
    /\ wpc' = "left"
    /\ wret' = None
    /\ wbuf0' = win.buf
    /\ wlast' = "find"
    /\ UNCHANGED <<build, wbb, win, wcleared, dvars, fvars>>

\* One evaluation of the first loop's condition, and its body when it holds.
WFindLeft ==
    /\ wpc = "left"
    /\ IF FindLeftCond(win, wgoal)
       THEN IF InBuf(win, win.p - 1)
            THEN win' = FindLeftStep(win) /\ wpc' = "left"
            ELSE win' = [win EXCEPT !.p = win.p - 1] /\ wpc' = "oob"
       ELSE win' = win /\ wpc' = "right"
    /\ UNCHANGED <<build, wbb, wcleared, wgoal, wret, wbuf0, wlast, dvars, fvars>>

\* One evaluation of the second loop's condition, and its body when it holds.
WFindRight ==
    /\ wpc = "right"
    /\ IF ~InBuf(win, win.p)
       THEN win' = win /\ wpc' = "oob"
       ELSE IF FindRightCond(win, wgoal)
            THEN win' = FindRightStep(win) /\ wpc' = "right"
            ELSE win' = win /\ wpc' = "nth"
    /\ UNCHANGED <<build, wbb, wcleared, wgoal, wret, wbuf0, wlast, dvars, fvars>>

\* The assertion, findnth64 and the return.
WFindReturn ==
    /\ wpc = "nth"
    /\ IF FindAssert(win, wgoal)
       THEN /\ wret' = FindResult(win, wgoal)
            /\ wpc' = "idle"
            /\ build' = build
       ELSE \E x \in Builds :
               /\ build' = x
               /\ IF x = "debug"
                  THEN wret' = None /\ wpc' = "abort"
                  ELSE \* findnth64 of a bit that does not exist: any index
                       /\ \E j \in 0..(WORD_SIZE - 1) :
                             wret' = win.p * WORD_SIZE + j
                       /\ wpc' = "idle"
    /\ UNCHANGED <<wbb, win, wcleared, wgoal, wbuf0, wlast, dvars, fvars>>

WNext == WClear \/ WUpdate \/ WFindCall \/ WFindLeft \/ WFindRight \/ WFindReturn

WSpecInit == build = "any" /\ WInit /\ DIdle /\ FIdle

SpecW == WSpecInit /\ [][WNext]_vars

\* find's loops are plain sequential code: a started find keeps running.
SpecWFair == SpecW /\ WF_vars(WFindLeft \/ WFindRight \/ WFindReturn)

\* ------------------------------------------------------------------- Spec

\* The sample values inputs are drawn from: NaNs, ties and distinct values.
SampleTable == <<NaN, 2, 2, 0, 4, NaN, 0>>

\* The input array that starts at entry offset of the table and advances by
\* stride per cell (stride 0: a constant array).
SampleArray(cells, stride, offset) ==
    [c \in cells |->
        SampleTable[((stride * c + offset) % Len(SampleTable)) + 1]]

\* Image shapes: X, Y >= 0 with at most MaxCells cells.
Shapes ==
    {s \in (0..MaxCells) \X (0..MaxCells) : s[1] * s[2] <= MaxCells}

Cells == 0..(arg.x * arg.y - 1)

\* No emit yet in this block.
NoEmit ==
    [kind |-> "none", nrm |-> 0, nins |-> 0, wok |-> TRUE, stale |-> FALSE,
     upok |-> TRUE]

\* The number of blocks of the call, 0 when the driver throws.
GridSize(x, y, hx, hy, hint) ==
    LET b == Blocksize(hx, hy, hint)
    IN  IF ImplThrows(hx, hy, b) THEN 0
        ELSE calc_count(b, x, hx) * calc_count(b, y, hy)

\* The call median_filter_2d(X, Y, hx, hy, blockhint, in, out).
Init ==
    /\ \E s \in Shapes, hx \in 0..MaxH, hy \in 0..MaxH, hint \in 0..MaxB :
          /\ GridSize(s[1], s[2], hx, hy, hint) <= MaxBlocks
          /\ arg = [x |-> s[1], y |-> s[2], hx |-> hx, hy |-> hy,
                    blockhint |-> hint]
    /\ \E stride \in 0..MaxStride, offset \in 0..(Len(SampleTable) - 1) :
          inp = SampleArray(Cells, stride, offset)
    /\ pc = "start"
    /\ dimx = DimNew(1, 0, 0)
    /\ dimy = DimNew(1, 0, 0)
    /\ ws = <<>>
    /\ todo = {}
    /\ out = [c \in Cells |-> Unwritten]
    /\ nwr = [c \in Cells |-> 0]

B == Blocksize(arg.hx, arg.hy, arg.blockhint)

\* median_filter_impl_2d, lines 406-408: the validation.
Validate ==
    /\ pc = "start"
    /\ pc' = IF ImplThrows(arg.hx, arg.hy, B) THEN "threw" ELSE "checked"
    /\ UNCHANGED <<build, arg, inp, dimx, dimy, ws, todo, out, nwr,
                   wvars, dvars>>

\* Lines 409-414: the two Dims with their assertions, then the parallel
\* region starts and every worker constructs its MedCalc2D. The team has
\* MaxThreads workers; a worker that is handed no block does nothing, so the
\* runs of a smaller team are the runs in which some workers stay idle.
BuildDims ==
    /\ pc = "checked"
    /\ dimx' = DimNew(B, arg.x, arg.hx)
    /\ dimy' = DimNew(B, arg.y, arg.hy)
    /\ LET ok == DimAssert(B, dimx') /\ DimAssert(B, dimy')
       IN  \E bl \in (IF ok THEN {build} ELSE Builds) :
              /\ build' = bl
              /\ IF ~ok /\ bl = "debug"
                 THEN pc' = "abort" /\ ws' = ws /\ todo' = todo
                 ELSE /\ pc' = "parallel"
                      /\ ws' = [w \in 1..MaxThreads |->
                                  [pc |-> "idle",
                                   mc |-> MedCalcNew(B, dimx', dimy'),
                                   x |-> 0, y |-> 0, down |-> TRUE,
                                   last |-> NoEmit]]
                      /\ todo' = (0..(dimx'.count - 1)) \X
                                 (0..(dimy'.count - 1))
    /\ UNCHANGED <<arg, inp, out, nwr, wvars, dvars>>

\* What an emit R of worker w does to the shared state: a failed assertion
\* aborts a debug build; undefined behaviour, which a write outside out is
\* too, ends the model's account of the run; else set_med writes out, and
\* the next evaluation of lines 340-356 either breaks, which ends run() and
\* leaves the worker idle, or goes on to the next move.
Land(w, R) ==
    \E bl \in (IF R.failed THEN Builds ELSE {build}) :
       /\ build' = bl
       /\ IF R.failed /\ bl = "debug"
          THEN pc' = "abort" /\ UNCHANGED <<ws, out, nwr>>
          ELSE IF R.ub \/ R.c \notin DOMAIN out
          THEN pc' = "ub" /\ UNCHANGED <<ws, out, nwr>>
          ELSE /\ pc' = pc
               /\ ws' = [ws EXCEPT ![w] =
                           [pc |-> IF SnakeBreak(R.mc, R.x, R.y, R.down)
                                   THEN "idle" ELSE "snake",
                            mc |-> R.mc, x |-> R.x, y |-> R.y,
                            down |-> R.down,
                            last |-> [kind |-> R.kind, nrm |-> R.nrm,
                                      nins |-> R.nins, wok |-> R.wok,
                                      stale |-> R.stale, upok |-> R.upok]]]
               /\ out' = [out EXCEPT ![R.c] = R.val]
               /\ nwr' = [nwr EXCEPT ![R.c] = @ + 1]

\* MedCalc2D::run(bx, by) up to the first emit: an idle worker is handed a
\* block, sets its BDims, builds the ranks, and medians() clears the window,
\* inserts the first window and emits.
Run(w) ==
    /\ pc = "parallel"
    /\ ws[w].pc = "idle"
    /\ \E blk \in todo :
          /\ todo' = todo \ {blk}
          /\ LET mc1 == [ws[w].mc EXCEPT !.bx = BDimSet(dimx, blk[1]),
                                         !.by = BDimSet(dimy, blk[2])]
                 cr == calc_rank(mc1, dimx, inp)
                 R == MediansBegin(cr.mc, dimx, dimy)
             IN  Land(w, [R EXCEPT !.ub = @ \/ cr.ub])
    /\ UNCHANGED <<arg, inp, dimx, dimy, wvars, dvars>>

\* One iteration of the while loop of medians() that does not break: move
\* one cell, update the window and emit.
Step(w) ==
    /\ pc = "parallel"
    /\ ws[w].pc = "snake"
    /\ LET L == ws[w]
       IN  Land(w, SnakeStep(L.mc, dimx, dimy, L.x, L.y, L.down))
    /\ UNCHANGED <<arg, inp, dimx, dimy, todo, wvars, dvars>>

\* The end of the parallel region: every block has been run to its break.
Join ==
    /\ pc = "parallel"
    /\ todo = {}
    /\ \A w \in DOMAIN ws : ws[w].pc = "idle"
    /\ pc' = "done"
    /\ UNCHANGED <<build, arg, inp, dimx, dimy, ws, todo, out, nwr,
                   wvars, dvars>>

Next ==
    \/ Validate
    \/ BuildDims
    \/ \E w \in DOMAIN ws : Run(w)
    \/ \E w \in DOMAIN ws : Step(w)
    \/ Join

SpecInit == build = "any" /\ Init /\ WIdle /\ DIdle

Spec == SpecInit /\ [][Next]_vars

\* Worker w is inside the while loop of medians().
InLoop(w) == pc = "parallel" /\ w \in DOMAIN ws /\ ws[w].pc = "snake"

\* A step that is an iteration of worker w's loop: w was inside the loop and
\* its position changed. Only Step(w) changes ws[w] while w is in the loop,
\* and Step(w) either changes ws[w] or ends the call.
Moved(w) == InLoop(w) /\ w \in DOMAIN ws' /\ ws'[w] # ws[w]

\* The fair specification: while some thread is inside the loop of
\* medians() one of them keeps executing it, and the thread that called the
\* filter leaves the parallel region once every block is done. The first is
\* weak fairness of the loop iteration, WF_vars(\E w : Step(w)), written out
\* as "infinitely often disabled or infinitely often taken", with
\* ENABLED <<Step(w)>>_vars put as InLoop(w) and <<Step(w)>>_vars as
\* Moved(w). It asks less than fairness to each thread does: no thread has
\* to run while another is inside its loop.
SpecFair ==
    /\ Spec
    /\ \/ []<>(\A w \in 1..MaxThreads : ~InLoop(w))
       \/ []<><<\E w \in 1..MaxThreads : Moved(w)>>_vars
    /\ WF_vars(Join)

\* --------------------------------------------------------- Window claims

\* Set bits of buf[0..p) and of buf[p..words).
BitsBelow(w) == {s \in w.buf : s \div WORD_SIZE < w.p}
BitsFrom(w) == {s \in w.buf : s \div WORD_SIZE >= w.p}

WHalfInv ==
    (wcleared /\ wpc \notin {"oob", "abort"}) =>
        /\ win.half0 = Cardinality(BitsBelow(win))
        /\ win.half1 = Cardinality(BitsFrom(win))
        /\ WinSize(win) = Cardinality(win.buf)

\* C8: once the window has been cleared, after every clear, update and find
\* call (and between the iterations of find) half[0] is the popcount of
\* buf[0..p), half[1] the popcount of buf[p..words), size() the number of set
\* bits; and an update step leaves p as it was.
C8_HalfInvariant ==
    /\ []WHalfInv
    /\ [][wlast' = "update" => win'.p = win.p]_vars

\* C8 witness: an update made after a find moved the pivot off words/2, with
\* set bits on both sides of the pivot.
C8_Witness ==
    /\ wcleared /\ wlast = "update" /\ wpc = "idle"
    /\ win.p # win.words \div 2
    /\ win.half0 >= 1 /\ win.half1 >= 2

\* The (k+1)-th smallest element of S.
KthSmallest(S, k) == CHOOSE s \in S : Cardinality({t \in S : t < s}) = k

\* C9: find(goal) with 0 <= goal < size() returns the position of the
\* (goal+1)-th set bit in ascending order, whatever pivot earlier calls left,
\* and the set of set bits is what it was when find was called.
C9_FindSelects ==
    (wpc = "idle" /\ wret # None) =>
        /\ wret = KthSmallest(wbuf0, wgoal)
        /\ win.buf = wbuf0

\* C9 witness: a find that returned the second set bit of the last word,
\* reached from a pivot a previous find had left in word 0.
C9_Witness ==
    /\ wpc = "idle" /\ wret # None
    /\ win.words >= 3
    /\ wret \div WORD_SIZE = win.words - 1
    /\ wret % WORD_SIZE = 1
    /\ wgoal >= 3

\* C10: during find(goal) with 0 <= goal < size() no read of buf[p] is
\* outside [0, words), the assertion before findnth64 holds, and both loops
\* terminate: a find that has started returns.
C10_FindSafeAndTerminates ==
    /\ [](wpc \notin {"oob", "abort"})
    /\ []((wpc \in {"right", "nth"}) => InBuf(win, win.p))
    /\ []((wpc = "nth") => FindAssert(win, wgoal))
    /\ ((wpc \in {"left", "right", "nth"}) ~> (wpc = "idle"))

\* C10 witness: find about to return after its second loop walked the pivot
\* up to the last of three words.
C10_Witness ==
    /\ wpc = "nth"
    /\ win.words >= 3
    /\ win.p = win.words - 1
    /\ wgoal >= 1
    /\ win.half0 >= 1

\* ------------------------------------------------------- geometry claims

\* The parameters the claims about Dim and BDim are made for.
DimValid == dim.size >= 1 /\ dim.h >= 0 /\ 2 * dim.h + 1 < db

\* C4: for size >= 1 and 2h + 1 < b the interiors [start + b0, start + b1)
\* of the blocks set so far are pairwise disjoint and lie in the image, and
\* once all count blocks are set they cover [0, size) exactly.
C4_InteriorsPartition ==
    (dpc = "built" /\ DimValid) =>
        /\ \A j, k \in 1..Len(dcover) : j # k => dcover[j] # dcover[k]
        /\ \A j \in 1..Len(dcover) : dcover[j] \in 0..(dim.size - 1)
        /\ dnext = dim.count =>
              {dcover[j] : j \in 1..Len(dcover)} = 0..(dim.size - 1)

\* C4 witness: an axis of three or more blocks, radius >= 1, all set.
C4_Witness ==
    /\ dpc = "built" /\ DimValid
    /\ dim.count >= 3 /\ dim.h >= 1
    /\ dnext = dim.count

\* --------------------------------------------------------- filter claims

\* The parameters the contract of median_filter_2d is stated for.
Valid == arg.x >= 1 /\ arg.y >= 1 /\ 2 * max(arg.hx, arg.hy) + 1 < B

\* The blocks of the call.
Grid == (0..(dimx.count - 1)) \X (0..(dimy.count - 1))

\* Coordinates of the clipped window of the cell with coordinate c.
ClippedWindow(c) ==
    LET x == c % arg.x
        y == c \div arg.x
    IN  {yy * arg.x + xx :
            xx \in max(0, x - arg.hx)..(min(arg.x, x + arg.hx + 1) - 1),
            yy \in max(0, y - arg.hy)..(min(arg.y, y + arg.hy + 1) - 1)}

\* The sort-based reference: the non-NaN samples of the clipped window in
\* ascending order (equal samples in coordinate order), their middle element
\* or the mean of the two middle elements, NaN when there is none.
RefMedian(c) ==
    LET S == {d \in ClippedWindow(c) : ~isnan(inp[d])}
        n == Cardinality(S)
        before(d) == Cardinality({e \in S : \/ inp[e] < inp[d]
                                            \/ (inp[e] = inp[d] /\ e < d)})
        kth(k) == inp[CHOOSE d \in S : before(d) = k]
    IN  IF n = 0 THEN NaN
        ELSE IF n % 2 = 1 THEN kth((n - 1) \div 2)
        ELSE (kth(n \div 2 - 1) + kth(n \div 2)) \div 2

\* C1: for X, Y >= 1 and a valid block size (2 * max(hx, hy) + 1 < b) the
\* call neither throws nor fails an assertion nor runs into undefined
\* behaviour, and when it has returned every output cell holds the median of
\* the non-NaN input samples of its clipped window: the middle one of an odd
\* number, the mean of the two middle ones of an even number, NaN of none.
C1_MedianOfClippedWindow ==
    Valid =>
        /\ pc \notin {"threw", "abort", "ub"}
        /\ pc = "done" => \A c \in Cells : out[c] = RefMedian(c)

\* C1 witness: a returned call with radius >= 1 on two or more blocks, where
\* some window holds a NaN and an even number of samples whose mean is none
\* of them.
C1_Witness ==
    /\ Valid /\ pc = "done"
    /\ max(arg.hx, arg.hy) >= 1
    /\ Cardinality(Grid) >= 2
    /\ \E c \in Cells :
          /\ \E d \in ClippedWindow(c) : isnan(inp[d])
          /\ \A d \in ClippedWindow(c) : inp[d] # out[c]
          /\ ~isnan(out[c])

\* C2: whatever blocks the workers are handed and however their steps
\* interleave, no output cell is ever written a second time, by the same or
\* by another worker, and when the parallel region has ended every output
\* cell has been written once.
C2_EachCellWrittenOnce ==
    \A c \in Cells :
        /\ nwr[c] <= 1
        /\ pc = "done" => nwr[c] = 1

\* C2 witness: the region has ended after two workers each ran a block.
C2_Witness ==
    /\ Valid /\ pc = "done"
    /\ Cardinality(Grid) >= 2
    /\ Cardinality({w \in DOMAIN ws : ws[w].last.kind # "none"}) >= 2
    /\ \A c \in Cells : nwr[c] = 1

\* The writes of the snake from emit R to the break, as pairs <<cell, value>>,
\* and whether the break is reached without a failed assertion or undefined
\* behaviour within fuel moves.
RECURSIVE SnakeWrites(_, _)
SnakeWrites(R, fuel) ==
    IF R.failed \/ R.ub \/ fuel = 0 THEN [wr |-> {}, ok |-> FALSE]
    ELSE IF SnakeBreak(R.mc, R.x, R.y, R.down)
    THEN [wr |-> {<<R.c, R.val>>}, ok |-> TRUE]
    ELSE LET rest == SnakeWrites(
                         SnakeStep(R.mc, dimx, dimy, R.x, R.y, R.down),
                         fuel - 1)
         IN  [wr |-> rest.wr \cup {<<R.c, R.val>>}, ok |-> rest.ok]

\* run(bx, by) of block blk on a MedCalc2D that has run no block before.
FreshRun(blk) ==
    LET mc0 == MedCalcNew(B, dimx, dimy)
        mc1 == [mc0 EXCEPT !.bx = BDimSet(dimx, blk[1]),
                           !.by = BDimSet(dimy, blk[2])]
        cr == calc_rank(mc1, dimx, inp)
    IN  IF cr.ub THEN [wr |-> {}, ok |-> FALSE]
        ELSE SnakeWrites(MediansBegin(cr.mc, dimx, dimy), Cardinality(Cells))

\* C3: for X, Y >= 1 and a valid block size, whichever worker ran which
\* blocks in which order (one worker all of them, or each its share), the
\* returned output array is the one function of the input that results when
\* every block is run on scratch that has run no block before; no run ends in
\* a failed assertion or undefined behaviour.
C3_OutputIndependentOfSchedule ==
    Valid =>
        /\ pc \notin {"abort", "ub"}
        /\ pc = "done" =>
              /\ \A blk \in Grid : FreshRun(blk).ok
              /\ {<<c, out[c]>> : c \in Cells} =
                    UNION {FreshRun(blk).wr : blk \in Grid}

\* C3 witness: a returned call in which one worker ran all of two or more
\* blocks on its reused scratch, on an input with NaN and non-NaN samples.
C3_Witness ==
    /\ Valid /\ pc = "done"
    /\ Cardinality(Grid) >= 2
    /\ \E w \in DOMAIN ws : ws[w].last.kind = "none"
    /\ \E c \in Cells : isnan(inp[c])
    /\ \E c \in Cells : ~isnan(inp[c])

\* C5 as stated: once the validation has run, the call has thrown exactly
\* when 2 * hx + 1 >= b or 2 * hy + 1 >= b, and a call that threw built no
\* worker and wrote nothing.
C5_ThrowsIffWindowNotBelowBlock ==
    pc # "start" =>
        /\ pc = "threw" <=> (2 * arg.hx + 1 >= B \/ 2 * arg.hy + 1 >= B)
        /\ pc = "threw" => (ws = <<>> /\ \A c \in Cells : nwr[c] = 0)

\* C6 as stated: on an empty image (X = 0 or Y = 0) the call is rejected by
\* the validation, so that it never builds the Dims or starts a worker, and
\* nothing is written.
C6_EmptyImageRejected ==
    (arg.x = 0 \/ arg.y = 0) =>
        /\ pc \in {"start", "threw"}
        /\ ws = <<>>

\* The interior cells of block blk, by output coordinate.
InteriorCells(blk) ==
    LET ix == BDimSet(dimx, blk[1])
        iy == BDimSet(dimy, blk[2])
    IN  {(iy.start + y) * dimx.size + (ix.start + x) :
            x \in ix.b0..(ix.b1 - 1), y \in iy.b0..(iy.b1 - 1)}

\* C7: for every call, every value the snake writes is the value the NAIVE
\* loop body writes to that cell from the same ranks (no failed assertion or
\* undefined behaviour in it); when the call has returned every cell the NAIVE
\* loops visit has been written; and the snake ends in a failed assertion or
\* undefined behaviour only where there is no output cell or the Dims, which
\* both builds share, failed their assertions.
C7_SnakeEqualsNaive ==
    /\ \A w \in DOMAIN ws :
          ws[w].last.kind # "none" =>
              LET n == NaiveCell(ws[w].mc, dimx, dimy, ws[w].x, ws[w].y)
              IN  /\ ~n.failed /\ ~n.ub
                  /\ n.c \in Cells
                  /\ out[n.c] = n.val
    /\ pc = "done" =>
          \A blk \in Grid : \A c \in InteriorCells(blk) :
              c \in Cells /\ nwr[c] = 1
    /\ pc \in {"abort", "ub"} => (Cells = {} \/ ws = <<>>)

\* C7 witness: a step up that removed and inserted samples, on an input with
\* a NaN.
C7_Witness ==
    /\ \E w \in DOMAIN ws :
          /\ ws[w].last.kind = "up"
          /\ ws[w].last.nrm >= 1
          /\ ws[w].last.nins >= 1
    /\ \E c \in Cells : isnan(inp[c])

\* ------------------------------------------------------ traversal claims

\* A call on an image with cells.
NonEmpty == arg.x >= 1 /\ arg.y >= 1

\* (x, y) is an interior cell of the block mc is set to.
InInterior(mc, x, y) ==
    /\ mc.bx.b0 <= x /\ x < mc.bx.b1
    /\ mc.by.b0 <= y /\ y < mc.by.b1

\* The interior cells of the block mc is set to that are not yet written.
Remaining(mc) ==
    {<<u, v>> \in (mc.bx.b0..(mc.bx.b1 - 1)) \X (mc.by.b0..(mc.by.b1 - 1)) :
        nwr[coord(mc, dimx, u, v)] = 0}

\* Every emitted cell is an interior cell of the worker's block; the loop
\* goes on only while an interior cell of the block is unwritten, and when
\* it has broken none is.
SnakeCovers ==
    NonEmpty =>
        /\ pc \notin {"abort", "ub"} \/ ws = <<>>
        /\ \A w \in DOMAIN ws :
              ws[w].last.kind # "none" =>
                  /\ InInterior(ws[w].mc, ws[w].x, ws[w].y)
                  /\ ws[w].pc = "snake" => Remaining(ws[w].mc) # {}
                  /\ ws[w].pc = "idle" => Remaining(ws[w].mc) = {}

\* An emit of worker w: the cell had not been written; the first emit of a
\* block is at (b0_x, b0_y), every later one is one cell away from the one
\* before it in exactly one coordinate, in the same block.
SnakeMove(w) ==
    ws'[w] # ws[w] =>
        LET a == ws[w]
            z == ws'[w]
            c == coord(z.mc, dimx, z.x, z.y)
        IN  /\ nwr[c] = 0 /\ nwr'[c] = 1
            /\ IF a.pc = "idle"
               THEN /\ z.last.kind = "first"
                    /\ z.x = z.mc.bx.b0 /\ z.y = z.mc.by.b0
               ELSE /\ z.mc.bx = a.mc.bx /\ z.mc.by = a.mc.by
                    /\ \/ z.x = a.x /\ (z.y = a.y + 1 \/ z.y = a.y - 1)
                       \/ z.y = a.y /\ z.x = a.x + 1

\* C11: on an image with cells, the snake of every block starts at
\* (b0_x, b0_y), emits interior cells of the block only, never a cell written
\* before, each one cell away from the previous in exactly one coordinate;
\* the loop goes on only while an interior cell is unwritten, when it breaks
\* every interior cell has been written, and whenever threads are inside the
\* loop there comes a state where every one of them has come to its break;
\* single rows, columns and cells included.
C11_SnakeVisitsInteriorOnce ==
    /\ []SnakeCovers
    /\ [][NonEmpty => \A w \in (DOMAIN ws) \cap (DOMAIN ws') : SnakeMove(w)]_vars
    /\ (NonEmpty /\ \E w \in 1..MaxThreads : InLoop(w))
          ~> (ws # <<>> /\ \A w \in DOMAIN ws : ws[w].pc = "idle")

\* C11 witness: a snake that has broken after going down a column, right and
\* up the next column.
C11_Witness ==
    /\ NonEmpty
    /\ \E w \in DOMAIN ws :
          /\ ws[w].pc = "idle"
          /\ ws[w].last.kind = "up"
          /\ ws[w].mc.bx.b1 - ws[w].mc.bx.b0 >= 2
          /\ ws[w].mc.by.b1 - ws[w].mc.by.b0 >= 2

\* The tile cells of the window [w0_x(x), w1_x(x)) x [w0_y(y), w1_y(y)).
TileWindow(mc, x, y) ==
    (w0(dimx, mc.bx, x)..(w1(dimx, mc.bx, x) - 1)) \X
    (w0(dimy, mc.by, y)..(w1(dimy, mc.by, y) - 1))

\* C12: after every set_med(x, y) of the snake the bits set in the worker's
\* Window are exactly the ranks of the non-NaN cells of the window
\* [w0_x(x), w1_x(x)) x [w0_y(y), w1_y(y)) of the emitted cell.
C12_WindowIsFullWindow ==
    \A w \in DOMAIN ws :
        ws[w].last.kind # "none" =>
            LET mc == ws[w].mc
                full == {c \in TileWindow(mc, ws[w].x, ws[w].y) :
                            ~isnan(inp[coord(mc, dimx, c[1], c[2])])}
            IN  /\ \A c \in full : pack(mc, c[1], c[2]) \in DOMAIN mc.wr.rank
                /\ mc.wr.win.buf =
                      {mc.wr.rank[pack(mc, c[1], c[2])] : c \in full}

\* C12 witness: a step down with radius >= 1 that removed the row left
\* behind and inserted the row reached, with a NaN cell in the new window.
C12_Witness ==
    \E w \in DOMAIN ws :
        /\ ws[w].last.kind = "down"
        /\ arg.hy >= 1
        /\ ws[w].last.nrm >= 1 /\ ws[w].last.nins >= 1
        /\ \E c \in TileWindow(ws[w].mc, ws[w].x, ws[w].y) :
              isnan(inp[coord(ws[w].mc, dimx, c[1], c[2])])

\* On an image with cells no block ends in a failed assertion or in
\* undefined behaviour (a debug build can abort in the Dim constructors,
\* before any worker exists).
NoFault == NonEmpty => (pc \notin {"abort", "ub"} \/ ws = <<>>)

\* C13: in every emit of the snake, every Window::update(+1, s) found bit s
\* clear and every Window::update(-1, s) found it set, with rank and buf
\* indexed in range; every rank a worker holds, hence every s passed on, is
\* in [0, b*b); and no block of an image with cells ends in a failed
\* assertion or undefined behaviour.
C13_UpdateAssertsHold ==
    /\ NoFault
    /\ \A w \in DOMAIN ws :
          /\ ws[w].last.upok
          /\ \A slot \in DOMAIN ws[w].mc.wr.rank :
                LET s == ws[w].mc.wr.rank[slot]
                IN  s = NAN_MARKER \/ (0 <= s /\ s < B * B)

\* C13 witness: a step right with radius >= 1 across it that removed and
\* inserted two or more bits.
C13_Witness ==
    \E w \in DOMAIN ws :
        /\ ws[w].last.kind = "right"
        /\ arg.hy >= 1
        /\ ws[w].last.nrm >= 2 /\ ws[w].last.nins >= 2
        /\ ws[w].last.upok

\* C14: in every emit of the snake, all arguments v of its w0(v) and w1(v)
\* calls, those of the cell left and of the cell reached, satisfied
\* b0 <= v < b1; and no block of an image with cells ends in a failed
\* assertion.
C14_WindowArgsInInterior ==
    /\ NonEmpty => (pc # "abort" \/ ws = <<>>)
    /\ \A w \in DOMAIN ws : ws[w].last.wok

\* C14 witness: a step up that reached the first interior row b0_y, so that
\* its look-behind call was w1(b0_y).
C14_Witness ==
    \E w \in DOMAIN ws :
        /\ ws[w].last.kind = "up"
        /\ ws[w].y = ws[w].mc.by.b0
        /\ ws[w].last.wok

\* ------------------------------------------------- further geometry claims

\* C15: for size >= 1 and 2h + 1 < b, for the block the BDim is set to and
\* every interior cell v of it, the tile window [w0(v), w1(v)) moved by start
\* is the image window [max(0, start+v-h), min(size, start+v+h+1)).
C15_TileWindowIsImageWindow ==
    (dpc = "built" /\ DimValid) =>
        \A v \in bd.b0..(bd.b1 - 1) :
            /\ bd.start + w0(dim, bd, v) = max(0, bd.start + v - dim.h)
            /\ bd.start + w1(dim, bd, v) =
                  min(dim.size, bd.start + v + dim.h + 1)

\* C15 witness: the last of two or more blocks, radius >= 1, with an
\* interior cell whose window is clipped at the image's end and one whose
\* window reaches into the halo before the interior.
C15_Witness ==
    /\ dpc = "built" /\ DimValid
    /\ dim.h >= 1 /\ dim.count >= 2 /\ dnext = dim.count
    /\ \E v \in bd.b0..(bd.b1 - 1) : v + 1 + dim.h > bd.size
    /\ \E v \in bd.b0..(bd.b1 - 1) : v - dim.h < bd.b0

\* The least n with n * s >= a, for a >= 0 and s >= 1.
CeilDiv(a, s) == CHOOSE n \in 0..a : n * s >= a /\ (n - 1) * s < a

\* C18: for size >= 1, h >= 0 and 2h + 1 < b the constructor's assertions
\* hold (no abort), with step = b - 2h and count = 1 when size <= b and
\* ceil((size - 2h) / step) otherwise: count >= 1, 2h + count * step >= size,
\* and 2h + (count - 1) * step < size or count = 1.
C18_DimAssertionsHold ==
    DimValid =>
        /\ dpc # "abort"
        /\ dim.step = db - 2 * dim.h
        /\ dim.count = IF dim.size <= db THEN 1
                       ELSE CeilDiv(dim.size - 2 * dim.h, dim.step)
        /\ dim.count >= 1
        /\ 2 * dim.h + dim.count * dim.step >= dim.size
        /\ (2 * dim.h + (dim.count - 1) * dim.step < dim.size
               \/ dim.count = 1)

\* C18 witness: a constructed Dim of more than one block, radius >= 1, in
\* which the division leaves a remainder.
C18_Witness ==
    /\ dpc = "built" /\ DimValid
    /\ dim.h >= 1 /\ dim.size > db
    /\ (dim.size - 2 * dim.h) % dim.step # 0

TileCells(mc) == (0..(mc.bx.size - 1)) \X (0..(mc.by.size - 1))
TileValue(mc, c) == inp[coord(mc, dimx, c[1], c[2])]

\* C16: once calc_rank has run on a worker's tile, size is the number of
\* non-NaN tile cells; sorted[0..size) holds pairs <<value, slot>> of non-NaN
\* tile cells with rank[sorted[i].second] = i; the ranks of the non-NaN slots
\* are exactly [0, size), one each; rank[s] < rank[t] exactly when
\* (value_s, s) is lexicographically smaller than (value_t, t); and every NaN
\* slot holds NAN_MARKER.
C16_RankIsSortOrder ==
    \A w \in DOMAIN ws :
        ws[w].last.kind # "none" =>
            LET mc == ws[w].mc
                rank == mc.wr.rank
                sorted == mc.wr.sorted
                live == {c \in TileCells(mc) : TileValue(mc, c) # NaN}
                slot(c) == pack(mc, c[1], c[2])
            IN  /\ mc.wr.size = Cardinality(live)
                /\ \A c \in TileCells(mc) : slot(c) \in DOMAIN rank
                /\ \A c \in TileCells(mc) \ live : rank[slot(c)] = NAN_MARKER
                /\ {rank[slot(c)] : c \in live} = 0..(mc.wr.size - 1)
                /\ \A i \in 0..(mc.wr.size - 1) :
                      /\ i \in DOMAIN sorted
                      /\ \E c \in live :
                            sorted[i] = <<TileValue(mc, c), slot(c)>>
                      /\ rank[sorted[i][2]] = i
                /\ \A c, d \in live :
                      rank[slot(c)] < rank[slot(d)] <=>
                          \/ TileValue(mc, c) < TileValue(mc, d)
                          \/ /\ TileValue(mc, c) = TileValue(mc, d)
                             /\ slot(c) < slot(d)

\* C16 witness: ranks built on a tile with a NaN cell and two equal samples
\* among three or more.
C16_Witness ==
    \E w \in DOMAIN ws :
        /\ ws[w].last.kind # "none"
        /\ ws[w].mc.wr.size >= 3
        /\ \E c \in TileCells(ws[w].mc) : TileValue(ws[w].mc, c) = NaN
        /\ \E c, d \in TileCells(ws[w].mc) :
              /\ c # d
              /\ TileValue(ws[w].mc, c) = TileValue(ws[w].mc, d)
              /\ TileValue(ws[w].mc, c) # NaN

\* C17: in every emit of every block a worker runs, on scratch earlier
\* blocks of other tile sizes have used, every rank[slot] that
\* WindowRank::update read had been written by the rank build of that block:
\* none left by an earlier block (stale), and none unwritten, which would be
\* undefined behaviour.
C17_NoStaleRankRead ==
    /\ NonEmpty => pc # "ub"
    /\ \A w \in DOMAIN ws : ~ws[w].last.stale

\* C17 witness: an emit with updates by a worker whose scratch holds ranks
\* of an earlier, larger tile at slots the current rank build did not write.
C17_Witness ==
    \E w \in DOMAIN ws :
        /\ ws[w].last.kind # "none"
        /\ ws[w].last.nins >= 1
        /\ (DOMAIN ws[w].mc.wr.rank) \ ws[w].mc.wr.fresh # {}

\* The non-NaN cells of the tile range [x0, x1) x [y0, y1).
LiveIn(mc, x0, x1, y0, y1) ==
    {c \in (x0..(x1 - 1)) \X (y0..(y1 - 1)) : TileValue(mc, c) # NaN}

\* The ranges of the step that reached (x, y) by move kind, from the w0 and
\* w1 of the cell left and the cell reached: thickness along the motion of
\* the removed (rt) and the inserted (it) range, their length across it
\* (len), the radius of the axis across it (h), and their non-NaN cells.
StepRanges(mc, kind, x, y) ==
    LET x0(v) == w0(dimx, mc.bx, v)
        x1(v) == w1(dimx, mc.bx, v)
        y0(v) == w0(dimy, mc.by, v)
        y1(v) == w1(dimy, mc.by, v)
    IN  IF kind = "right"
        THEN [rt |-> x0(x) - x0(x - 1), it |-> x1(x) - x1(x - 1),
              len |-> y1(y) - y0(y), h |-> dimy.h,
              rm |-> LiveIn(mc, x0(x - 1), x0(x), y0(y), y1(y)),
              ins |-> LiveIn(mc, x1(x - 1), x1(x), y0(y), y1(y))]
        ELSE IF kind = "down"
        THEN [rt |-> y0(y) - y0(y - 1), it |-> y1(y) - y1(y - 1),
              len |-> x1(x) - x0(x), h |-> dimx.h,
              rm |-> LiveIn(mc, x0(x), x1(x), y0(y - 1), y0(y)),
              ins |-> LiveIn(mc, x0(x), x1(x), y1(y - 1), y1(y))]
        ELSE [rt |-> y1(y + 1) - y1(y), it |-> y0(y + 1) - y0(y),
              len |-> x1(x) - x0(x), h |-> dimx.h,
              rm |-> LiveIn(mc, x0(x), x1(x), y1(y), y1(y + 1)),
              ins |-> LiveIn(mc, x0(x), x1(x), y0(y), y0(y + 1))]

\* C20: in every single-cell step of the snake the removed and the inserted
\* range are 0 or 1 cell thick along the motion and at most 2h + 1 long
\* across it; the step made one Window::update per non-NaN cell of each
\* range, so none for a range clipped to nothing, and at most 2 * (2h + 1)
\* in all.
C20_StepUpdatesBounded ==
    \A w \in DOMAIN ws :
        ws[w].last.kind \in {"right", "down", "up"} =>
            LET r == StepRanges(ws[w].mc, ws[w].last.kind, ws[w].x, ws[w].y)
            IN  /\ r.rt \in {0, 1} /\ r.it \in {0, 1}
                /\ r.len <= 2 * r.h + 1
                /\ ws[w].last.nrm = Cardinality(r.rm)
                /\ ws[w].last.nins = Cardinality(r.ins)
                /\ ws[w].last.nrm <= r.rt * r.len
                /\ ws[w].last.nins <= r.it * r.len
                /\ ws[w].last.nrm + ws[w].last.nins <= 2 * (2 * r.h + 1)

\* C20 witness: a step down with radius >= 1 whose removed range is clipped
\* to nothing at the image's first row and whose inserted range is not.
C20_Witness ==
    \E w \in DOMAIN ws :
        /\ ws[w].last.kind = "down"
        /\ arg.hy >= 1
        /\ StepRanges(ws[w].mc, "down", ws[w].x, ws[w].y).rt = 0
        /\ ws[w].last.nrm = 0
        /\ ws[w].last.nins >= 1

====
